---- MODULE Spec2Model ----
(***************************************************************************)
(* Field codec of the task application (lib/encryption.ts): encryptData,   *)
(* decryptData, encryptObject, decryptObject, over a scaled-down model of  *)
(* the CryptoJS password-based AES cipher they call.                       *)
(*                                                                         *)
(* Scaling of the cipher library (structure kept, sizes reduced):          *)
(*   byte            3 bits (0..7) instead of 8                            *)
(*   UTF-8           0..3 one-byte characters, 6..7 lead bytes of a        *)
(*                   two-byte character, 4..5 continuation bytes           *)
(*   block           2 bytes (a number 0..63) instead of 16                *)
(*   block cipher    a keyed permutation of 0..63 instead of AES           *)
(*   chaining        CBC with addition mod 64 instead of XOR               *)
(*   header, salt    1 byte each instead of 8 ("Salted__", 64-bit salt)    *)
(*   Base64          one character per byte instead of 4 per 3 bytes       *)
(* Texts are sequences of one-character strings, byte strings sequences    *)
(* of numbers 0..7, ciphertext strings sequences of Base64 characters.     *)
(***************************************************************************)
EXTENDS Integers, Sequences, FiniteSets, TLC

\* Bounds of the exploration.
MaxTextLen == 1
MaxPass == 2
MaxSalt == 1
MaxCipherLen == 3

(***************************************************************************)
(* Values                                                                  *)
(***************************************************************************)
\* The passphrases (user emails), all non-empty; a number names one.
Passphrases == 1..MaxPass

\* The values crypto.getRandomValues may hand out as a salt.
Salts == 0..MaxSalt

\* JavaScript's undefined where a string is expected.
Undefined == <<"undefined">>

\* A UTF-16 code unit that is half of a surrogate pair, standing alone.
LoneSurrogate == "\\uD800"

\* One-byte and two-byte characters with their UTF-8 encodings.
Utf8Table ==
  [c \in {",", "[", "]", "0", "e'", "u:", "n~", "ss"} |->
     CASE c = ","  -> <<0>>
       [] c = "["  -> <<1>>
       [] c = "]"  -> <<2>>
       [] c = "0"  -> <<3>>
       [] c = "e'" -> <<6, 4>>
       [] c = "u:" -> <<6, 5>>
       [] c = "n~" -> <<7, 4>>
       [] c = "ss" -> <<7, 5>>]

WellFormedChars == DOMAIN Utf8Table

\* The texts callers pass: well-formed characters and the lone surrogate.
TextChars == {"0", "e'", LoneSurrogate}

RECURSIVE SeqsUpTo(_, _)
SeqsUpTo(S, n) ==
  IF n = 0 THEN {<<>>}
  ELSE LET shorter == SeqsUpTo(S, n - 1)
       IN  shorter \cup {Append(s, x) : s \in {t \in shorter : Len(t) = n - 1}, x \in S}

Texts == SeqsUpTo(TextChars, MaxTextLen)

(***************************************************************************)
(* CryptoJS.enc.Utf8                                                       *)
(***************************************************************************)
\* Utf8.parse = unescape(encodeURIComponent(s)); encodeURIComponent throws
\* URIError on a lone surrogate.
Utf8ParseThrows(text) == \E i \in 1..Len(text) : text[i] = LoneSurrogate

RECURSIVE Utf8Parse(_)
Utf8Parse(text) ==
  IF text = <<>> THEN <<>>
  ELSE Utf8Table[Head(text)] \o Utf8Parse(Tail(text))

\* Utf8.stringify = decodeURIComponent(escape(latin1)); throws
\* 'Malformed UTF-8 data' on an invalid byte sequence.
RECURSIVE Utf8Valid(_)
Utf8Valid(bytes) ==
  IF bytes = <<>> THEN TRUE
  ELSE IF bytes[1] \in 0..3 THEN Utf8Valid(Tail(bytes))
  ELSE IF bytes[1] \in 6..7 /\ Len(bytes) >= 2 /\ bytes[2] \in 4..5
       THEN Utf8Valid(Tail(Tail(bytes)))
  ELSE FALSE

RECURSIVE Utf8Decode(_)
Utf8Decode(bytes) ==
  IF bytes = <<>> THEN <<>>
  ELSE IF bytes[1] \in 0..3
       THEN <<CHOOSE c \in WellFormedChars : Utf8Table[c] = <<bytes[1]>> >>
            \o Utf8Decode(Tail(bytes))
  ELSE <<CHOOSE c \in WellFormedChars : Utf8Table[c] = <<bytes[1], bytes[2]>> >>
       \o Utf8Decode(Tail(Tail(bytes)))

Utf8Stringify(bytes) ==
  IF Utf8Valid(bytes) THEN [threw |-> FALSE, val |-> Utf8Decode(bytes)]
  ELSE [threw |-> TRUE, val |-> <<>>]

(***************************************************************************)
(* CryptoJS.enc.Base64 and the OpenSSL format                              *)
(***************************************************************************)
Base64Map == <<"A", "B", "C", "D", "E", "F", "G", "H">>
Base64PadChar == "="

\* Characters a string handed to decryptData may hold: the Base64 alphabet,
\* the padding character and one character outside the alphabet.
CipherChars == {Base64Map[i] : i \in 1..8} \cup {Base64PadChar, "-"}

Base64Stringify(bytes) == [i \in 1..Len(bytes) |-> Base64Map[bytes[i] + 1]]

\* parse ignores everything from the first padding character on, and a
\* character outside the alphabet contributes zero bits (no validation).
Base64SigLen(str) ==
  IF \E i \in 1..Len(str) : str[i] = Base64PadChar
  THEN (CHOOSE i \in 1..Len(str) :
          str[i] = Base64PadChar /\ \A j \in 1..(i - 1) : str[j] # Base64PadChar) - 1
  ELSE Len(str)

Base64Parse(str) ==
  [i \in 1..Base64SigLen(str) |->
     IF \E b \in 1..8 : Base64Map[b] = str[i]
     THEN (CHOOSE b \in 1..8 : Base64Map[b] = str[i]) - 1
     ELSE 0]

\* The "Salted__" marker.
SaltedHeader == <<7>>

OpenSSLStringify(salt, body) == Base64Stringify(SaltedHeader \o <<salt>> \o body)

\* format.OpenSSL.parse: header present => the next bytes are the salt and
\* the rest the ciphertext; otherwise no salt and all bytes are ciphertext.
\* A string that ends right after the header has an empty word array as its
\* salt (written 8, a value no salt byte has), which is not an absent salt.
OpenSSLParse(str) ==
  LET bytes == Base64Parse(str)
  IN  IF Len(bytes) >= 1 /\ SubSeq(bytes, 1, 1) = SaltedHeader
      THEN [salted |-> TRUE,
            salt |-> IF Len(bytes) >= 2 THEN bytes[2] ELSE 8,
            body |-> SubSeq(bytes, 3, Len(bytes))]
      ELSE [salted |-> FALSE, salt |-> 8, body |-> bytes]

(***************************************************************************)
(* Key derivation, block cipher, CBC, PKCS#7                               *)
(***************************************************************************)
\* kdf.OpenSSL: key and IV from passphrase and salt; distinct
\* (passphrase, salt) pairs give distinct keys.
EvpKDF(pass, salt) ==
  LET h == pass * 9 + salt
  IN  [a |-> (2 * h + 1) % 64, b |-> (5 * h + 3) % 64, iv |-> (7 * h + 4) % 64]

encryptBlock(key, x) == (key.a * x + key.b) % 64

decryptBlock(key, y) ==
  LET inv == CHOOSE i \in 1..63 : (key.a * i) % 64 = 1
  IN  (inv * (y - key.b + 64)) % 64

BlockOf(bytes, k) == bytes[2 * k - 1] * 8 + bytes[2 * k]
BytesOf(x) == <<x \div 8, x % 8>>

\* pad.Pkcs7.pad: n bytes of value n, n = 2 - len % 2.
Pkcs7Pad(bytes) ==
  IF Len(bytes) % 2 = 0 THEN bytes \o <<2, 2>> ELSE bytes \o <<1>>

RECURSIVE CbcEncryptFrom(_, _, _, _)
CbcEncryptFrom(key, bytes, k, prev) ==
  IF 2 * k > Len(bytes) THEN <<>>
  ELSE LET c == encryptBlock(key, (BlockOf(bytes, k) + prev) % 64)
       IN  BytesOf(c) \o CbcEncryptFrom(key, bytes, k + 1, c)

CbcEncrypt(key, bytes) == CbcEncryptFrom(key, bytes, 1, key.iv)

RECURSIVE CbcDecryptFrom(_, _, _, _)
CbcDecryptFrom(key, bytes, k, prev) ==
  IF 2 * k > Len(bytes) THEN <<>>
  ELSE LET c == BlockOf(bytes, k)
       IN  BytesOf((decryptBlock(key, c) - prev + 64) % 64)
           \o CbcDecryptFrom(key, bytes, k + 1, c)

\* The decryptor's flush processes ceil(len / blockSize) blocks, reading
\* the missing bytes of a partial last block as zero.
CbcDecrypt(key, body) ==
  LET full == IF Len(body) % 2 = 0 THEN body ELSE body \o <<0>>
  IN  CbcDecryptFrom(key, full, 1, key.iv)

\* pad.Pkcs7.unpad: the last byte of the last word is the padding length;
\* it is subtracted from sigBytes without any check of the padding bytes.
\* A word array with sigBytes <= 0 stringifies to the empty string.
Pkcs7Unpad(plain, sigBytes) ==
  LET n == IF sigBytes = 0 THEN 0 ELSE plain[Len(plain)]
      left == sigBytes - n
  IN  IF left <= 0 THEN <<>> ELSE SubSeq(plain, 1, left)

(***************************************************************************)
(* CryptoJS.AES with a passphrase (PasswordBasedCipher)                    *)
(***************************************************************************)
\* AES.encrypt(message, passphrase): finalize appends the message only when
\* it is truthy, so undefined and '' both encrypt the empty message; a
\* string message is converted with Utf8.parse, which may throw.
AESEncryptThrows(data) ==
  data # Undefined /\ data # <<>> /\ Utf8ParseThrows(data)

AESEncrypt(data, pass, salt) ==
  LET message == IF data = Undefined \/ data = <<>> THEN <<>> ELSE Utf8Parse(data)
  IN  OpenSSLStringify(salt, CbcEncrypt(EvpKDF(pass, salt), Pkcs7Pad(message)))

\* AES.decrypt(ciphertext, passphrase): the salt is the parsed one, or a
\* fresh random salt (rnd) when the string carries none. Never throws.
AESDecrypt(str, pass, rnd) ==
  LET parsed == OpenSSLParse(str)
      key == EvpKDF(pass, IF parsed.salted THEN parsed.salt ELSE rnd)
  IN  Pkcs7Unpad(CbcDecrypt(key, parsed.body), Len(parsed.body))

(***************************************************************************)
(* JSON.stringify and JSON.parse on numbers and nested arrays              *)
(***************************************************************************)
Num0 == [t |-> "num", e |-> <<>>]
Arr(elems) == [t |-> "arr", e |-> elems]
\* A value with a cyclic reference.
Cyclic == [t |-> "cyclic", e |-> <<>>]
\* undefined, a function or a symbol.
UndefinedValue == [t |-> "undefined", e |-> <<>>]
NoObj == [t |-> "none", e |-> <<>>]

JsonValues ==
  {Num0, Arr(<<>>), Arr(<<Num0>>), Arr(<<Num0, Num0>>), Arr(<<Arr(<<>>)>>),
   Arr(<<Arr(<<Num0>>), Num0>>)}

Values == JsonValues \cup {Cyclic, UndefinedValue}

RECURSIVE StringifyValue(_), StringifyElems(_)
StringifyValue(v) ==
  IF v.t = "num" THEN <<"0">> ELSE <<"[">> \o StringifyElems(v.e) \o <<"]">>

StringifyElems(elems) ==
  IF elems = <<>> THEN <<>>
  ELSE IF Len(elems) = 1 THEN StringifyValue(elems[1])
  ELSE StringifyValue(elems[1]) \o <<",">> \o StringifyElems(Tail(elems))

\* JSON.stringify: TypeError on a cycle, undefined (no string) for
\* undefined, functions and symbols.
JSONStringify(v) ==
  IF v.t = "cyclic" THEN [threw |-> TRUE, val |-> <<>>]
  ELSE IF v.t = "undefined" THEN [threw |-> FALSE, val |-> Undefined]
  ELSE [threw |-> FALSE, val |-> StringifyValue(v)]

ParseFail == [ok |-> FALSE, val |-> NoObj, next |-> 0]

RECURSIVE ParseValue(_, _), ParseElems(_, _, _)
ParseValue(s, i) ==
  IF i > Len(s) THEN ParseFail
  ELSE IF s[i] = "0" THEN [ok |-> TRUE, val |-> Num0, next |-> i + 1]
  ELSE IF s[i] = "["
       THEN IF i + 1 <= Len(s) /\ s[i + 1] = "]"
            THEN [ok |-> TRUE, val |-> Arr(<<>>), next |-> i + 2]
            ELSE ParseElems(s, i + 1, <<>>)
  ELSE ParseFail

ParseElems(s, i, acc) ==
  LET r == ParseValue(s, i)
  IN  IF ~r.ok THEN ParseFail
      ELSE IF r.next <= Len(s) /\ s[r.next] = ","
           THEN ParseElems(s, r.next + 1, Append(acc, r.val))
      ELSE IF r.next <= Len(s) /\ s[r.next] = "]"
           THEN [ok |-> TRUE, val |-> Arr(Append(acc, r.val)), next |-> r.next + 1]
      ELSE ParseFail

\* JSON.parse: SyntaxError unless the whole text is one value.
JSONParse(text) ==
  LET r == ParseValue(text, 1)
  IN  IF r.ok /\ r.next = Len(text) + 1
      THEN [threw |-> FALSE, val |-> r.val]
      ELSE [threw |-> TRUE, val |-> NoObj]

(***************************************************************************)
(* The four codec operations                                               *)
(***************************************************************************)
\* The result of a call: a returned string (val) or value (obj), or a thrown
\* error (err). prims counts the invocations of the cipher primitive the
\* call made, primThrew tells whether one of them threw, parses counts the
\* invocations of JSON.parse.
Return(val, prims) ==
  [kind |-> "return", val |-> val, obj |-> NoObj, err |-> "",
   prims |-> prims, primThrew |-> FALSE, parses |-> 0]

Throw(err, prims, primThrew) ==
  [kind |-> "throw", val |-> <<>>, obj |-> NoObj, err |-> err,
   prims |-> prims, primThrew |-> primThrew, parses |-> 0]

EncryptError == "Failed to encrypt data"
DecryptError == "Failed to decrypt data"
TypeError == "TypeError: Converting circular structure to JSON"
SyntaxError == "SyntaxError"

\* encryptData with a catch block that logs and returns '' instead of throwing.
encryptDataSwallow(data, email, salt) ==
  IF AESEncryptThrows(data)
  THEN [Return(<<>>, 1) EXCEPT !.primThrew = TRUE]
  ELSE Return(AESEncrypt(data, email, salt), 1)

encryptData(data, email, salt) ==
  IF AESEncryptThrows(data)
  THEN Throw(EncryptError, 1, TRUE)
  ELSE Return(AESEncrypt(data, email, salt), 1)

HexDigits == <<"0", "1", "2", "3", "4", "5", "6", "7">>

\* decryptData with decrypted.toString() (hexadecimal) instead of
\* decrypted.toString(CryptoJS.enc.Utf8).
decryptDataHex(encryptedData, email, rnd) ==
  LET decrypted == AESDecrypt(encryptedData, email, rnd)
      text == [i \in 1..Len(decrypted) |-> HexDigits[decrypted[i] + 1]]
  IN  IF text = <<>> THEN Throw(DecryptError, 1, FALSE) ELSE Return(text, 1)

\* decryptData without the check for an empty text.
decryptDataNoEmptyCheck(encryptedData, email, rnd) ==
  LET decrypted == AESDecrypt(encryptedData, email, rnd)
      text == Utf8Stringify(decrypted)
  IN  IF text.threw THEN Throw(DecryptError, 1, TRUE) ELSE Return(text.val, 1)

decryptData(encryptedData, email, rnd) ==
  LET decrypted == AESDecrypt(encryptedData, email, rnd)
      text == Utf8Stringify(decrypted)
  IN  IF text.threw THEN Throw(DecryptError, 1, TRUE)
      ELSE IF text.val = <<>> THEN Throw(DecryptError, 1, FALSE)
      ELSE Return(text.val, 1)

encryptObject(obj, email, salt) ==
  LET jsonString == JSONStringify(obj)
  IN  IF jsonString.threw THEN Throw(TypeError, 0, FALSE)
      ELSE encryptData(jsonString.val, email, salt)

\* decryptObject that returns the decrypted text without JSON.parse.
decryptObjectNoParse(encryptedData, email, rnd) ==
  decryptData(encryptedData, email, rnd)

\* decryptObject that catches every error and returns null.
decryptObjectSwallow(encryptedData, email, rnd) ==
  LET decrypted == decryptData(encryptedData, email, rnd)
      parsed == JSONParse(decrypted.val)
  IN  IF decrypted.kind = "throw" THEN [Return(<<>>, decrypted.prims) EXCEPT !.parses = 0]
      ELSE IF parsed.threw THEN [Return(<<>>, decrypted.prims) EXCEPT !.parses = 1]
      ELSE [decrypted EXCEPT !.val = <<>>, !.obj = parsed.val, !.parses = 1]

decryptObject(encryptedData, email, rnd) ==
  LET decrypted == decryptData(encryptedData, email, rnd)
      parsed == JSONParse(decrypted.val)
  IN  IF decrypted.kind = "throw" THEN decrypted
      ELSE IF parsed.threw
           THEN [Throw(SyntaxError, decrypted.prims, FALSE) EXCEPT !.parses = 1]
      ELSE [decrypted EXCEPT !.val = <<>>, !.obj = parsed.val, !.parses = 1]

(***************************************************************************)
(* The record store (supabase-schema.sql): tables tasks and               *)
(* checklist_items, the foreign key with its cascade, and the row level    *)
(* security policies.  uid is auth.uid() of the request.  A statement      *)
(* returns [error, db, data]; on an error the store is left as it was.        *)
(* Timestamps are numbers, a null column is the empty sequence.            *)
(***************************************************************************)
\* Bound of the exploration: the rows ever inserted in a run.
MaxRows == 3

EmptyDb == [tasks |-> {}, checklist_items |-> {}, clock |-> 1]

Result(error, store, data) == [error |-> error, db |-> store, data |-> data]

\* USING / WITH CHECK (auth.uid() = user_id).
OwnTask(uid, t) == uid = t.user_id

\* USING / WITH CHECK (EXISTS (SELECT 1 FROM tasks WHERE tasks.id =
\* checklist_items.task_id AND tasks.user_id = auth.uid())).
OwnItem(store, uid, ci) ==
  \E t \in store.tasks : t.id = ci.task_id /\ t.user_id = uid

\* UPDATE ... SET of the columns the request names.
SetColumns(row, patch) ==
  [c \in DOMAIN row |-> IF c \in DOMAIN patch THEN patch[c] ELSE row[c]]

\* ORDER BY column, descending or ascending, of a set of rows with distinct
\* values in the column.
RECURSIVE OrderBy(_, _, _)
OrderBy(rows, column, ascending) ==
  IF rows = {} THEN <<>>
  ELSE LET first == CHOOSE r \in rows : \A o \in rows :
                      IF ascending THEN r[column] <= o[column]
                      ELSE r[column] >= o[column]
       IN  <<first>> \o OrderBy(rows \ {first}, column, ascending)

\* The filters the client puts on a select of tasks.
MatchesFilter(t, filter) ==
  CASE filter = "today"   -> t.is_today
    [] filter = "pending" -> t.status = "pending"
    [] OTHER              -> TRUE

\* select('*, checklist_items(*)').eq('user_id', user_id) with the filter,
\* ordered by created_at descending; both tables under their SELECT policy.
SelectTasks(store, uid, user_id, filter) ==
  LET visible == {t \in store.tasks :
                    OwnTask(uid, t) /\ t.user_id = user_id /\ MatchesFilter(t, filter)}
      embedded(t) == {ci \in store.checklist_items :
                        ci.task_id = t.id /\ OwnItem(store, uid, ci)}
      ordered == OrderBy(visible, "created_at", FALSE)
  IN  Result(FALSE, store,
             [i \in 1..Len(ordered) |->
                [task |-> ordered[i], checklist_items |-> embedded(ordered[i])]])

\* insert of one tasks row, .select().single(): the defaults fill id,
\* created_at and completed_at; the status must pass the CHECK constraint.
InsertTask(store, uid, new) ==
  LET row == [id |-> store.clock, user_id |-> new.user_id, title |-> new.title,
              jira_ticket_link |-> new.jira_ticket_link,
              encrypted_data |-> new.encrypted_data, status |-> new.status,
              created_at |-> store.clock, is_today |-> new.is_today,
              completed_at |-> <<>>]
  IN  IF ~OwnTask(uid, row) \/ row.status \notin {"pending", "completed"}
      THEN Result(TRUE, store, <<>>)
      ELSE Result(FALSE,
                  [store EXCEPT !.tasks = @ \cup {row}, !.clock = @ + 1],
                  <<row>>)

\* insert of several checklist_items rows in one statement: the foreign key
\* and the INSERT policy hold for every row or nothing is inserted.
InsertItems(store, uid, news) ==
  LET rows == {[id |-> store.clock + i - 1, task_id |-> news[i].task_id,
                encrypted_data |-> news[i].encrypted_data,
                completed |-> news[i].completed,
                position |-> news[i].position] : i \in 1..Len(news)}
  IN  IF \E ci \in rows : ~OwnItem(store, uid, ci)
      THEN Result(TRUE, store, <<>>)
      ELSE Result(FALSE,
                  [store EXCEPT !.checklist_items = @ \cup rows,
                             !.clock = @ + Len(news)],
                  <<>>)

\* update(patch).eq('id', id) on tasks when no policy restricts UPDATE.
UpdateTaskNoPolicy(store, uid, id, patch) ==
  LET old == {t \in store.tasks : t.id = id}
      new == {SetColumns(t, patch) : t \in old}
  IN  Result(FALSE, [store EXCEPT !.tasks = (@ \ old) \cup new], <<>>)

\* update(patch).eq('id', id) on tasks: the rows the UPDATE policy shows;
\* the new row must pass the same expression and the CHECK constraint.
UpdateTask(store, uid, id, patch) ==
  LET old == {t \in store.tasks : t.id = id /\ OwnTask(uid, t)}
      new == {SetColumns(t, patch) : t \in old}
  IN  IF \E t \in new : ~OwnTask(uid, t) \/ t.status \notin {"pending", "completed"}
      THEN Result(TRUE, store, <<>>)
      ELSE Result(FALSE, [store EXCEPT !.tasks = (@ \ old) \cup new], <<>>)

\* update(patch).eq('id', id) on checklist_items.
UpdateItem(store, uid, id, patch) ==
  LET old == {ci \in store.checklist_items : ci.id = id /\ OwnItem(store, uid, ci)}
      new == {SetColumns(ci, patch) : ci \in old}
  IN  IF \E ci \in new : ~OwnItem(store, uid, ci)
      THEN Result(TRUE, store, <<>>)
      ELSE Result(FALSE, [store EXCEPT !.checklist_items = (@ \ old) \cup new], <<>>)

\* delete().eq('id', id) on tasks when the foreign key has no ON DELETE
\* CASCADE and is not enforced.
DeleteTaskNoCascade(store, uid, id) ==
  LET old == {t \in store.tasks : t.id = id /\ OwnTask(uid, t)}
  IN  Result(FALSE, [store EXCEPT !.tasks = @ \ old], <<>>)

\* delete().eq('id', id) on tasks; ON DELETE CASCADE removes the checklist
\* items of the deleted rows.
DeleteTask(store, uid, id) ==
  LET old == {t \in store.tasks : t.id = id /\ OwnTask(uid, t)}
      gone == {t.id : t \in old}
  IN  Result(FALSE,
             [store EXCEPT !.tasks = @ \ old,
                        !.checklist_items = {ci \in @ : ci.task_id \notin gone}],
             <<>>)

\* delete().eq('id', id) on checklist_items.
DeleteItem(store, uid, id) ==
  LET old == {ci \in store.checklist_items : ci.id = id /\ OwnItem(store, uid, ci)}
  IN  Result(FALSE, [store EXCEPT !.checklist_items = @ \ old], <<>>)

\* A request as the store receives it: the statement, its principal and
\* its arguments.
Request(kind, by, id, user_id, filter, rows, patch) ==
  [kind |-> kind, by |-> by, id |-> id, user_id |-> user_id, filter |-> filter,
   rows |-> rows, patch |-> patch]

Execute(store, req) ==
  CASE req.kind = "selectTasks" -> SelectTasks(store, req.by, req.user_id, req.filter)
    [] req.kind = "insertTask"  -> InsertTask(store, req.by, req.rows[1])
    [] req.kind = "insertItems" -> InsertItems(store, req.by, req.rows)
    [] req.kind = "updateTask"  -> UpdateTask(store, req.by, req.id, req.patch)
    [] req.kind = "updateItem"  -> UpdateItem(store, req.by, req.id, req.patch)
    [] req.kind = "deleteTask"  -> DeleteTask(store, req.by, req.id)
    [] req.kind = "deleteItem"  -> DeleteItem(store, req.by, req.id)

(***************************************************************************)
(* The components: what TaskList, TaskForm and TaskItem compute            *)
(***************************************************************************)
\* { ...a, ...b }
Spread(a, b) ==
  [c \in DOMAIN a \cup DOMAIN b |-> IF c \in DOMAIN b THEN b[c] ELSE a[c]]

\* A trim that removes nothing.
TrimNothing(str) == str

\* String.prototype.trim on a sequence of one-character strings.
RECURSIVE Trim(_)
Trim(str) ==
  IF str = <<>> THEN <<>>
  ELSE IF Head(str) = " " THEN Trim(Tail(str))
  ELSE IF str[Len(str)] = " " THEN Trim(SubSeq(str, 1, Len(str) - 1))
  ELSE str

\* The description shown for a record that could not be decrypted.
DecryptionFailed == <<"[Decryption failed]">>

\* fetchTasks, the strings the map hands to decryptData for one fetched
\* record, in the order of the calls: the description, then the checklist
\* items sorted by position.
Ciphertexts(entry) ==
  LET sorted == OrderBy(entry.checklist_items, "position", TRUE)
  IN  <<entry.task.encrypted_data>>
        \o [i \in 1..Len(sorted) |-> sorted[i].encrypted_data]

\* The salts the decryptData calls for one record can draw, one per call: a
\* call draws a salt only when its string carries no Salted__ header, and
\* the key it decrypts with is derived from that draw.
DrawsOf(entry) ==
  LET strs == Ciphertexts(entry)
  IN  {rnds \in [1..Len(strs) -> Salts] :
         \A j \in 1..Len(strs) : OpenSSLParse(strs[j]).salted => rnds[j] = 0}

\* The draws of the calls for every fetched record.
RECURSIVE DrawsFor(_)
DrawsFor(data) ==
  IF data = <<>> THEN {<<>>}
  ELSE {<<rnds>> \o rest : rnds \in DrawsOf(Head(data)), rest \in DrawsFor(Tail(data))}

\* The body of the map with one try block per decryptData call instead of
\* one around the whole record: the items that decrypt are kept.
DecryptTaskPartial(entry, email, rnds) ==
  LET description == decryptData(entry.task.encrypted_data, email, rnds[1])
      sorted == OrderBy(entry.checklist_items, "position", TRUE)
      text == [i \in 1..Len(sorted) |->
                 decryptData(sorted[i].encrypted_data, email, rnds[i + 1])]
      good == SelectSeq([i \in 1..Len(sorted) |-> i], LAMBDA i : text[i].kind = "return")
  IN  Spread(entry.task,
             [description |-> IF description.kind = "throw" THEN DecryptionFailed
                              ELSE description.val,
              checklist |-> [j \in 1..Len(good) |->
                               Spread(sorted[good[j]], [text |-> text[good[j]].val])]])

\* fetchTasks, the body of the map over the fetched rows: one try block for
\* the description and every checklist item of the task, sorted by position.
\* rnds[1] is the draw of the call for the description, rnds[i + 1] the draw
\* of the call for the i-th item.
DecryptTask(entry, email, rnds) ==
  LET description == decryptData(entry.task.encrypted_data, email, rnds[1])
      sorted == OrderBy(entry.checklist_items, "position", TRUE)
      text == [i \in 1..Len(sorted) |->
                 decryptData(sorted[i].encrypted_data, email, rnds[i + 1])]
  IN  IF description.kind = "throw" \/ \E i \in 1..Len(sorted) : text[i].kind = "throw"
      THEN Spread(entry.task, [description |-> DecryptionFailed, checklist |-> <<>>])
      ELSE Spread(entry.task,
                  [description |-> description.val,
                   checklist |-> [i \in 1..Len(sorted) |->
                                    Spread(sorted[i], [text |-> text[i].val])]])

\* The description and every checklist item of a fetched record decrypt
\* under the email with the draws rnds.
AllDecrypt(entry, email, rnds) ==
  LET strs == Ciphertexts(entry)
  IN  \A j \in 1..Len(strs) : decryptData(strs[j], email, rnds[j]).kind = "return"

\* DecryptTasks when a record that fails to decrypt is left out of the list.
DecryptTasksDropFailed(data, email, draws) ==
  LET good == SelectSeq([i \in 1..Len(data) |-> i],
                        LAMBDA i : AllDecrypt(data[i], email, draws[i]))
  IN  [j \in 1..Len(good) |-> DecryptTask(data[good[j]], email, draws[good[j]])]

\* fetchTasks, the map over the fetched rows; draws[i] are the draws of the
\* calls for the i-th row.
DecryptTasks(data, email, draws) ==
  [i \in 1..Len(data) |-> DecryptTask(data[i], email, draws[i])]

\* handleTaskStatusChange that sets the status and leaves completed_at.
handleTaskStatusChangeStatusOnly(prev, taskId, newStatus, completedAt) ==
  [i \in 1..Len(prev) |->
     IF prev[i].id = taskId THEN [prev[i] EXCEPT !.status = newStatus] ELSE prev[i]]

\* handleTaskStatusChange: the state updater given to setTasks.
handleTaskStatusChange(prev, taskId, newStatus, completedAt) ==
  [i \in 1..Len(prev) |->
     IF prev[i].id = taskId
     THEN [prev[i] EXCEPT !.status = newStatus, !.completed_at = completedAt]
     ELSE prev[i]]

\* handleChecklistItemChange that changes the item in every task but the
\* one named (the comparison of the task id inverted).
handleChecklistItemChangeOtherTask(prev, taskId, itemId, completed) ==
  [i \in 1..Len(prev) |->
     IF prev[i].id # taskId
     THEN [prev[i] EXCEPT !.checklist =
             [j \in 1..Len(@) |->
                IF @[j].id = itemId THEN [@[j] EXCEPT !.completed = completed]
                ELSE @[j]]]
     ELSE prev[i]]

\* handleChecklistItemChange: the state updater given to setTasks.
handleChecklistItemChange(prev, taskId, itemId, completed) ==
  [i \in 1..Len(prev) |->
     IF prev[i].id = taskId
     THEN [prev[i] EXCEPT !.checklist =
             [j \in 1..Len(@) |->
                IF @[j].id = itemId THEN [@[j] EXCEPT !.completed = completed]
                ELSE @[j]]]
     ELSE prev[i]]

\* handleSubmit: the checklist items that are sent.
ValidItems(checklistItems) == SelectSeq(checklistItems, LAMBDA item : Trim(item) # <<>>)

\* handleSubmit: the row inserted into tasks.
TaskPayload(user, title, jiraLink, encryptedDescription, isToday) ==
  [user_id |-> user.id, title |-> Trim(title),
   jira_ticket_link |-> Trim(jiraLink),
   encrypted_data |-> encryptedDescription, status |-> "pending",
   is_today |-> isToday]

\* The rows for checklist_items with the texts sent as they were entered.
ChecklistPayloadPlain(task, validItems, email, salts) ==
  [i \in 1..Len(validItems) |->
     [task_id |-> task.id, encrypted_data |-> validItems[i],
      position |-> i - 1, completed |-> FALSE]]

\* handleSubmit: the rows inserted into checklist_items; salts[i] is the
\* salt the i-th encryptData call draws.
ChecklistPayload(task, validItems, email, salts) ==
  [i \in 1..Len(validItems) |->
     [task_id |-> task.id,
      encrypted_data |-> encryptData(validItems[i], email, salts[i]).val,
      position |-> i - 1, completed |-> FALSE]]

(***************************************************************************)
(* Callers of the codec                                                    *)
(***************************************************************************)
\* last: the most recent call with its arguments and result.
\* kept: the string the caller holds (as the record store does) and hands
\*       to decryption, with the encrypting call that returned it.
VARIABLES last, kept

\* db:    the record store.
\* auth:  the user useAuth() gives the components.
\* view:  the state of TaskList (tasks, loading, showForm, filter).
\* form:  the state of TaskForm.
\* net:   the requests awaited, in the order they were sent, each with the
\*        values its continuation closed over and, once the store has
\*        answered, the response.
\* typed: what was entered in the form for each task it created (history).
VARIABLES db, auth, view, form, net, typed

appVars == <<db, auth, view, form, net, typed>>

vars == <<last, kept, db, auth, view, form, net, typed>>

\* No user is signed in.
NoUser == [id |-> 0, email |-> 0]

\* The state TaskList is constructed with. deleting holds the ids of the
\* tasks whose mounted TaskItem has its loading flag set (a TaskItem is
\* constructed with loading false).
TaskListState ==
  [tasks |-> <<>>, loading |-> TRUE, showForm |-> FALSE, filter |-> "today",
   deleting |-> {}]

\* The state TaskForm is constructed with.
TaskFormState ==
  [title |-> <<>>, description |-> <<>>, jiraLink |-> <<>>,
   checklistItems |-> << <<>> >>, isToday |-> TRUE, loading |-> FALSE, error |-> ""]

\* The components are not mounted.
NoApp ==
  /\ db = EmptyDb
  /\ auth = NoUser
  /\ view = TaskListState
  /\ form = TaskFormState
  /\ net = <<>>
  /\ typed = {}

NoCall ==
  [op |-> "none", text |-> <<>>, obj |-> NoObj, cipher |-> <<>>, pass |-> 0,
   salt |-> 0, out |-> Throw("", 0, FALSE)]

Init == last = NoCall /\ kept = NoCall /\ NoApp

EncryptDataCall(data, email, salt) ==
  [NoCall EXCEPT !.op = "encryptData", !.text = data, !.pass = email,
                 !.salt = salt, !.out = encryptData(data, email, salt)]

EncryptObjectCall(obj, email, salt) ==
  [NoCall EXCEPT !.op = "encryptObject", !.obj = obj, !.pass = email,
                 !.salt = salt, !.out = encryptObject(obj, email, salt)]

DecryptDataCall(str, email, rnd) ==
  [NoCall EXCEPT !.op = "decryptData", !.cipher = str, !.pass = email,
                 !.salt = rnd, !.out = decryptData(str, email, rnd)]

DecryptObjectCall(str, email, rnd) ==
  [NoCall EXCEPT !.op = "decryptObject", !.cipher = str, !.pass = email,
                 !.salt = rnd, !.out = decryptObject(str, email, rnd)]

CallEncryptData ==
  \E data \in Texts, email \in Passphrases, salt \in Salts :
    /\ last' = EncryptDataCall(data, email, salt)
    /\ kept' = last'
    /\ UNCHANGED appVars

CallEncryptObject ==
  \E obj \in Values, email \in Passphrases, salt \in Salts :
    /\ last' = EncryptObjectCall(obj, email, salt)
    /\ kept' = last'
    /\ UNCHANGED appVars

\* What a caller may hand to decryption: the kept ciphertext, whole or
\* truncated.
Truncations(str) == {SubSeq(str, 1, n) : n \in 0..Len(str)}

HasSalt(str) == OpenSSLParse(str).salted

\* rnd is the salt the primitive draws when the string carries none.
CallDecryptData ==
  /\ kept.out.kind = "return"
  /\ \E str \in Truncations(kept.out.val), email \in Passphrases, rnd \in Salts :
       /\ HasSalt(str) => rnd = 0
       /\ last' = DecryptDataCall(str, email, rnd)
  /\ UNCHANGED <<kept, appVars>>

CallDecryptObject ==
  /\ kept.out.kind = "return"
  /\ \E str \in Truncations(kept.out.val), email \in Passphrases, rnd \in Salts :
       /\ HasSalt(str) => rnd = 0
       /\ last' = DecryptObjectCall(str, email, rnd)
  /\ UNCHANGED <<kept, appVars>>

Next ==
  \/ CallEncryptData
  \/ CallEncryptObject
  \/ CallDecryptData
  \/ CallDecryptObject

Spec == Init /\ [][Next]_vars

(***************************************************************************)
(* Decryption of arbitrary strings                                         *)
(***************************************************************************)
\* A string the caller holds that no call of the codec returned.
Held(str) == [NoCall EXCEPT !.op = "other", !.out = Return(str, 0)]

InitArbitrary == last = NoCall /\ kept = Held(<<>>) /\ NoApp

\* The caller puts the string together, one character at a time.
ComposeString ==
  /\ kept.op = "other"
  /\ Len(kept.out.val) < MaxCipherLen
  /\ \E c \in CipherChars : kept' = Held(Append(kept.out.val, c))
  /\ UNCHANGED <<last, appVars>>

NextArbitrary ==
  \/ ComposeString
  \/ CallDecryptData

SpecArbitrary == InitArbitrary /\ [][NextArbitrary]_vars

(***************************************************************************)
(* The application: the components' handlers and the store's answers       *)
(***************************************************************************)
\* A request that is awaited: the continuation that waits for it, the
\* request, the response (none yet), the values the continuation closed
\* over, and on: those of the component instances whose state the
\* continuation sets ("TaskList", "TaskForm", "TaskItem") that are still
\* mounted; a state setter of an unmounted instance changes nothing.
Awaited(kind, req, k, on) ==
  [kind |-> kind, req |-> req, resp |-> <<>>, k |-> k, on |-> on]

Remove(seq, i) == SubSeq(seq, 1, i - 1) \o SubSeq(seq, i + 1, Len(seq))

\* The instances of the components are unmounted.
Unmount(awaited, components) ==
  [i \in 1..Len(awaited) |-> [awaited[i] EXCEPT !.on = @ \ components]]

Answered(i) == i \in 1..Len(net) /\ net[i].resp # <<>>

\* The response of an answered request.
Response(i) == net[i].resp[1]

\* new Date().toISOString()
Now == <<db.clock>>

\* The message of a failure the store reports.
RequestError == "request failed"

\* What handleSubmit shows for a failure that is not an Error object.
FailedToCreate == "Failed to create task"

\* fetchTasks up to its await, called by a closure of a TaskList that is
\* mounted or not, over the user and the filter of the render that made the
\* closure: nothing without a user email, else setLoading(true), which
\* replaces the list by the spinner and so unmounts the TaskItems, and the
\* query for the user's tasks under the filter.
fetchTasks(state, awaited, user, filter, mounted) ==
  IF user.email = 0 THEN [view |-> state, net |-> awaited]
  ELSE [view |-> IF mounted THEN [state EXCEPT !.loading = TRUE, !.deleting = {}]
                 ELSE state,
        net |-> Append(IF mounted THEN Unmount(awaited, {"TaskItem"}) ELSE awaited,
                       Awaited("fetchTasks",
                               Request("selectTasks", user.id, 0, user.id, filter,
                                       <<>>, <<>>),
                               [user |-> user],
                               IF mounted THEN {"TaskList"} ELSE {}))]

\* App renders TaskList for a user: the state after TaskList is mounted and
\* its effect has called fetchTasks, with what the store holds then.
Mounted(store, user) ==
  /\ db = store
  /\ auth = user
  /\ view = fetchTasks(TaskListState, <<>>, user, TaskListState.filter, TRUE).view
  /\ form = TaskFormState
  /\ net = fetchTasks(TaskListState, <<>>, user, TaskListState.filter, TRUE).net
  /\ typed = {}

\* The store executes a request that is awaited and answers.
ServeExecute ==
  \E i \in 1..Len(net) :
    /\ net[i].resp = <<>>
    /\ db.clock + Len(net[i].req.rows) - 1 <= MaxRows
    /\ LET result == Execute(db, net[i].req)
       IN  /\ db' = result.db
           /\ net' = [net EXCEPT ![i].resp =
                        <<[error |-> result.error, data |-> result.data]>>]
    /\ UNCHANGED <<last, kept, auth, view, form, typed>>

\* A request fails (the store or the connection) with no effect on the store.
ServeFail ==
  \E i \in 1..Len(net) :
    /\ net[i].resp = <<>>
    /\ net' = [net EXCEPT ![i].resp = <<[error |-> TRUE, data |-> <<>>]>>]
    /\ UNCHANGED <<last, kept, db, auth, view, form, typed>>

\* fetchTasks after its await. The TaskItems of the tasks that stay in a
\* list that was displayed stay mounted (key={task.id}); the others are
\* unmounted.
FetchTasksReturns ==
  \E i \in 1..Len(net) :
    /\ Answered(i)
    /\ net[i].kind = "fetchTasks"
    /\ \E draws \in DrawsFor(Response(i).data) :
         LET tasks == DecryptTasks(Response(i).data, net[i].k.user.email, draws)
             ids == {tasks[n].id : n \in 1..Len(tasks)}
             gone == {j \in 1..Len(net) :
                        net[j].kind = "deleteTask" /\ net[j].k.task.id \notin ids}
         IN  IF "TaskList" \notin net[i].on
             THEN view' = view /\ net' = Remove(net, i)
             ELSE IF Response(i).error
             THEN view' = [view EXCEPT !.loading = FALSE] /\ net' = Remove(net, i)
             ELSE /\ view' = [view EXCEPT !.tasks = tasks, !.loading = FALSE,
                                          !.deleting = @ \cap ids]
                  /\ net' = Remove([j \in 1..Len(net) |->
                                      IF j \in gone
                                      THEN [net[j] EXCEPT !.on = @ \ {"TaskItem"}]
                                      ELSE net[j]], i)
    /\ UNCHANGED <<last, kept, db, auth, form, typed>>

\* A click on a filter button other than the selected one: the effect runs
\* fetchTasks with the new filter.
SetFilter(filter) ==
  /\ auth # NoUser
  /\ filter # view.filter
  /\ LET called == fetchTasks([view EXCEPT !.filter = filter], net, auth, filter, TRUE)
     IN  view' = called.view /\ net' = called.net
  /\ UNCHANGED <<last, kept, db, auth, form, typed>>

\* useAuth() gives another user object. Without a user App renders AuthForm
\* in the place of TaskList, which is unmounted with its TaskForm and
\* TaskItems; with a user after none, a new TaskList is mounted and its
\* effect runs fetchTasks; with a user after another user object (another
\* account, another email or the same values), the effect of the mounted
\* TaskList runs fetchTasks.
UserChanges(user) ==
  /\ user # NoUser \/ auth # NoUser
  /\ auth' = user
  /\ IF user = NoUser
     THEN /\ view' = TaskListState
          /\ form' = TaskFormState
          /\ net' = Unmount(net, {"TaskList", "TaskForm", "TaskItem"})
     ELSE LET called == IF auth = NoUser
                        THEN fetchTasks(TaskListState, net, user,
                                        TaskListState.filter, TRUE)
                        ELSE fetchTasks(view, net, user, view.filter, TRUE)
          IN  view' = called.view /\ net' = called.net /\ form' = form
  /\ UNCHANGED <<last, kept, db, typed>>

\* handleSignOut: signOut() is awaited and a failure only logged; when it
\* succeeds, useAuth() gives no user.
handleSignOut(succeeds) ==
  /\ auth # NoUser
  /\ IF succeeds THEN UserChanges(NoUser) ELSE UNCHANGED vars

\* The button that shows or hides the form: a shown form is unmounted, a
\* hidden one is mounted anew.
ToggleForm ==
  /\ auth # NoUser
  /\ view' = [view EXCEPT !.showForm = ~@]
  /\ form' = TaskFormState
  /\ net' = Unmount(net, {"TaskForm"})
  /\ UNCHANGED <<last, kept, db, auth, typed>>

\* The onChange handlers of the title, link and description inputs and of
\* the isToday checkbox of the form that is shown. The inputs are not
\* disabled while a submit is awaited.
setTitle(value) ==
  /\ view.showForm
  /\ form' = [form EXCEPT !.title = value]
  /\ UNCHANGED <<last, kept, db, auth, view, net, typed>>

setJiraLink(value) ==
  /\ view.showForm
  /\ form' = [form EXCEPT !.jiraLink = value]
  /\ UNCHANGED <<last, kept, db, auth, view, net, typed>>

setDescription(value) ==
  /\ view.showForm
  /\ form' = [form EXCEPT !.description = value]
  /\ UNCHANGED <<last, kept, db, auth, view, net, typed>>

setIsToday(checked) ==
  /\ view.showForm
  /\ form' = [form EXCEPT !.isToday = checked]
  /\ UNCHANGED <<last, kept, db, auth, view, net, typed>>

\* '+ Add checklist item': an empty item is appended.
handleAddChecklistItem ==
  /\ view.showForm
  /\ form' = [form EXCEPT !.checklistItems = Append(@, <<>>)]
  /\ UNCHANGED <<last, kept, db, auth, view, net, typed>>

\* The remove button of an item, rendered when there is more than one item
\* (the index counts from 1 here).
handleRemoveChecklistItem(index) ==
  /\ view.showForm
  /\ Len(form.checklistItems) > 1
  /\ index \in 1..Len(form.checklistItems)
  /\ form' = [form EXCEPT !.checklistItems =
                SubSeq(@, 1, index - 1) \o SubSeq(@, index + 1, Len(@))]
  /\ UNCHANGED <<last, kept, db, auth, view, net, typed>>

\* The onChange handler of an item's input, TaskForm's
\* handleChecklistItemChange(index, value).
handleItemChange(index, value) ==
  /\ view.showForm
  /\ index \in 1..Len(form.checklistItems)
  /\ form' = [form EXCEPT !.checklistItems[index] = value]
  /\ UNCHANGED <<last, kept, db, auth, view, net, typed>>

\* handleSubmit up to its first await, over the fields of the form as they
\* are; salts are the salts the encryptData calls of this submit draw.
HandleSubmit(salts) ==
  LET encryptedDescription == encryptData(form.description, auth.email, salts[1])
  IN  /\ view.showForm
      /\ ~form.loading
      /\ IF auth.email = 0
         THEN form' = [form EXCEPT !.error = "User not authenticated"] /\ net' = net
         ELSE IF Trim(form.title) = <<>>
         THEN form' = [form EXCEPT !.error = "Title is required"] /\ net' = net
         ELSE IF encryptedDescription.kind = "throw"
         THEN form' = [form EXCEPT !.error = encryptedDescription.err] /\ net' = net
         ELSE /\ db.clock + Len(ValidItems(form.checklistItems)) <= MaxRows
              /\ form' = [form EXCEPT !.loading = TRUE, !.error = ""]
              /\ net' = Append(net,
                   Awaited("insertTask",
                           Request("insertTask", auth.id, 0, 0, "all",
                                   <<TaskPayload(auth, form.title, form.jiraLink,
                                                 encryptedDescription.val, form.isToday)>>,
                                   <<>>),
                           [user |-> auth, filter |-> view.filter,
                            description |-> form.description,
                            checklistItems |-> form.checklistItems,
                            salts |-> Tail(salts)],
                           {"TaskList", "TaskForm"}))
      /\ UNCHANGED <<last, kept, db, auth, view, typed>>

\* The end of handleSubmit's try block: the fields are reset and onSuccess
\* hides the form that TaskList shows and fetches again (handleTaskMutated,
\* over the user and the filter of the render the form was submitted in).
SubmitSucceeds(i) ==
  LET mounted == "TaskList" \in net[i].on
      hidden == IF mounted THEN [view EXCEPT !.showForm = FALSE] ELSE view
      called == fetchTasks(hidden, Unmount(Remove(net, i), IF mounted THEN {"TaskForm"} ELSE {}),
                           net[i].k.user, net[i].k.filter, mounted)
  IN  /\ form' = IF mounted THEN TaskFormState ELSE form
      /\ view' = called.view
      /\ net' = called.net

\* handleSubmit's catch and finally blocks, of the form that was submitted.
SubmitFails(i, message) ==
  /\ form' = IF "TaskForm" \in net[i].on
             THEN [form EXCEPT !.error = message, !.loading = FALSE]
             ELSE form
  /\ net' = Remove(net, i)
  /\ UNCHANGED view

\* handleSubmit after the insert of the task: the checklist items are
\* encrypted and inserted, if there are any. The error of a failed request
\* is shown by its message if it is an Error object.
InsertTaskReturns ==
  \E i \in 1..Len(net) :
    LET k == net[i].k
        validItems == ValidItems(k.checklistItems)
    IN  /\ Answered(i)
        /\ net[i].kind = "insertTask"
        /\ IF Response(i).error
           THEN /\ \E message \in {RequestError, FailedToCreate} : SubmitFails(i, message)
                /\ typed' = typed
           ELSE /\ typed' = typed \cup
                      {[id |-> Response(i).data[1].id, email |-> k.user.email,
                        description |-> k.description, checklist |-> validItems]}
                /\ IF validItems = <<>> THEN SubmitSucceeds(i)
                   ELSE IF \E j \in 1..Len(validItems) :
                             encryptData(validItems[j], k.user.email, k.salts[j]).kind = "throw"
                   THEN SubmitFails(i, EncryptError)
                   ELSE /\ net' = [net EXCEPT ![i] =
                             Awaited("insertItems",
                                     Request("insertItems", k.user.id, 0, 0, "all",
                                             ChecklistPayload(Response(i).data[1], validItems,
                                                              k.user.email, k.salts),
                                             <<>>),
                                     k, net[i].on)]
                        /\ UNCHANGED <<view, form>>
        /\ UNCHANGED <<last, kept, db, auth>>

\* handleSubmit after the insert of the checklist items.
InsertItemsReturns ==
  \E i \in 1..Len(net) :
    /\ Answered(i)
    /\ net[i].kind = "insertItems"
    /\ IF Response(i).error
       THEN \E message \in {RequestError, FailedToCreate} : SubmitFails(i, message)
       ELSE SubmitSucceeds(i)
    /\ UNCHANGED <<last, kept, db, auth, typed>>

\* toggleTaskStatus of the TaskItem of a displayed task, up to its await:
\* the optimistic update and the request. The checkbox is disabled while
\* the TaskItem awaits its delete.
ToggleTaskStatus(n) ==
  LET task == view.tasks[n]
      newStatus == IF task.status = "pending" THEN "completed" ELSE "pending"
      completedAt == IF newStatus = "completed" THEN Now ELSE <<>>
  IN  /\ n \in 1..Len(view.tasks)
      /\ ~view.loading
      /\ task.id \notin view.deleting
      /\ auth.email # 0
      /\ view' = [view EXCEPT !.tasks =
                    handleTaskStatusChange(@, task.id, newStatus, completedAt)]
      /\ net' = Append(net,
           Awaited("toggleTaskStatus",
                   Request("updateTask", auth.id, task.id, 0, "all", <<>>,
                           [status |-> newStatus, completed_at |-> completedAt]),
                   [task |-> task], {"TaskList"}))
      /\ UNCHANGED <<last, kept, db, auth, form, typed>>

\* toggleTaskStatus after its await: the revert when the update failed.
ToggleTaskStatusReturns ==
  \E i \in 1..Len(net) :
    /\ Answered(i)
    /\ net[i].kind = "toggleTaskStatus"
    /\ view' = IF Response(i).error /\ "TaskList" \in net[i].on
               THEN [view EXCEPT !.tasks =
                       handleTaskStatusChange(@, net[i].k.task.id, net[i].k.task.status,
                                              net[i].k.task.completed_at)]
               ELSE view
    /\ net' = Remove(net, i)
    /\ UNCHANGED <<last, kept, db, auth, form, typed>>

\* toggleChecklistItem(item.id, item.completed) of a displayed checklist
\* item, up to its await.
ToggleChecklistItem(n, m) ==
  LET task == view.tasks[n]
      item == task.checklist[m]
      newCompleted == ~item.completed
  IN  /\ n \in 1..Len(view.tasks)
      /\ m \in 1..Len(task.checklist)
      /\ ~view.loading
      /\ auth.email # 0
      /\ view' = [view EXCEPT !.tasks =
                    handleChecklistItemChange(@, task.id, item.id, newCompleted)]
      /\ net' = Append(net,
           Awaited("toggleChecklistItem",
                   Request("updateItem", auth.id, item.id, 0, "all", <<>>,
                           [completed |-> newCompleted]),
                   [taskId |-> task.id, itemId |-> item.id,
                    currentCompleted |-> item.completed], {"TaskList"}))
      /\ UNCHANGED <<last, kept, db, auth, form, typed>>

\* toggleChecklistItem after its await.
ToggleChecklistItemReturns ==
  \E i \in 1..Len(net) :
    /\ Answered(i)
    /\ net[i].kind = "toggleChecklistItem"
    /\ view' = IF Response(i).error /\ "TaskList" \in net[i].on
               THEN [view EXCEPT !.tasks =
                       handleChecklistItemChange(@, net[i].k.taskId, net[i].k.itemId,
                                                 net[i].k.currentCompleted)]
               ELSE view
    /\ net' = Remove(net, i)
    /\ UNCHANGED <<last, kept, db, auth, form, typed>>

\* deleteTask of the TaskItem of a displayed task, up to its await: nothing
\* when the user declines the confirmation. The button is disabled while
\* the TaskItem awaits its delete.
deleteTask(n, confirmed) ==
  LET task == view.tasks[n]
  IN  /\ n \in 1..Len(view.tasks)
      /\ ~view.loading
      /\ task.id \notin view.deleting
      /\ IF ~confirmed THEN UNCHANGED <<view, net>>
         ELSE /\ view' = [view EXCEPT !.deleting = @ \cup {task.id}]
              /\ net' = Append(net,
                   Awaited("deleteTask",
                           Request("deleteTask", auth.id, task.id, 0, "all", <<>>, <<>>),
                           [user |-> auth, filter |-> view.filter, task |-> task],
                           {"TaskList", "TaskItem"}))
      /\ UNCHANGED <<last, kept, db, auth, form, typed>>

\* deleteTask after its await: onDeleted (handleTaskMutated, over the user
\* and the filter of the render the button was clicked in) fetches again
\* when the delete succeeded; the loading flag of the TaskItem is cleared.
DeleteTaskReturns ==
  \E i \in 1..Len(net) :
    LET k == net[i].k
        called == IF Response(i).error THEN [view |-> view, net |-> Remove(net, i)]
                  ELSE fetchTasks(view, Remove(net, i), k.user, k.filter,
                                  "TaskList" \in net[i].on)
        cleared == IF "TaskItem" \in net[i].on
                   THEN [called.view EXCEPT !.deleting = @ \ {k.task.id}]
                   ELSE called.view
    IN  /\ Answered(i)
        /\ net[i].kind = "deleteTask"
        /\ view' = cleared
        /\ net' = called.net
        /\ UNCHANGED <<last, kept, db, auth, form, typed>>

(***************************************************************************)
(* Creating and listing tasks                                              *)
(***************************************************************************)
\* One account, under the email it signed up with and under a later one.
Accounts == {[id |-> 1, email |-> 1], [id |-> 1, email |-> 2]}

\* The most checklist items the user adds to the form.
MaxItems == 3

\* TaskList is mounted for the account, its first fetch has returned no
\* rows from the empty store, and the form has been opened.
InitCreating ==
  /\ last = NoCall
  /\ kept = NoCall
  /\ db = EmptyDb
  /\ auth = [id |-> 1, email |-> 1]
  /\ view = [TaskListState EXCEPT !.loading = FALSE, !.showForm = TRUE]
  /\ form = TaskFormState
  /\ net = <<>>
  /\ typed = {}

\* The most requests awaited at a time.
MaxInFlight == 2

\* The step leaves no more requests awaited than the bound.
Room == Len(net') <= MaxInFlight

\* The user types a title, a description (one the primitive cannot encode
\* among them) and checklist items, adds and removes items, and submits;
\* the store answers every request.
NextCreating ==
  \/ ServeExecute
  \/ FetchTasksReturns
  \/ InsertTaskReturns
  \/ InsertItemsReturns
  \/ setTitle(<<" ", "a">>)
  \/ \E value \in {<<>>, <<"0">>, <<LoneSurrogate>>} : setDescription(value)
  \/ handleAddChecklistItem /\ Len(form'.checklistItems) <= MaxItems
  \/ \E index \in 1..MaxItems : handleRemoveChecklistItem(index)
  \/ \E index \in 1..MaxItems, value \in {<<"0">>, <<"e'">>} :
       handleItemChange(index, value)
  \/ (\E salts \in {<<0, 1, 0>>, <<1, 0, 1>>} : HandleSubmit(salts)) /\ Room

SpecCreating == InitCreating /\ [][NextCreating]_vars

(***************************************************************************)
(* Closing and reopening the form while its submit is awaited               *)
(***************************************************************************)
InitReopening ==
  last = NoCall /\ kept = NoCall /\ Mounted(EmptyDb, [id |-> 1, email |-> 1])

\* The user opens and closes the form, types a title and a description and
\* submits.
NextReopening ==
  \/ ServeExecute
  \/ ServeFail
  \/ FetchTasksReturns
  \/ InsertTaskReturns
  \/ ToggleForm
  \/ setTitle(<<"a">>)
  \/ setDescription(<<"0">>)
  \/ HandleSubmit(<<0>>) /\ Room

SpecReopening == InitReopening /\ [][NextReopening]_vars

(***************************************************************************)
(* Listing tasks over sign-ins, sign-outs and changes of the email         *)
(***************************************************************************)
\* A string without the Salted__ header, as another client of the store can
\* have written it: the key it is decrypted with depends on the salt that
\* the decryptData call draws.
Headerless == <<"-", "F", "A">>

\* The store with a task the account created through the form under its
\* first email, the checklist items as given.
WithCreated(store, checklistItems) ==
  LET user == [id |-> 1, email |-> 1]
      task == InsertTask(store, user.id,
                         TaskPayload(user, <<"a">>, <<>>,
                                     encryptData(<<"0">>, user.email, 0).val, TRUE))
  IN  InsertItems(task.db, user.id,
                  ChecklistPayload(task.data[1], ValidItems(checklistItems),
                                   user.email, <<1, 0>>)).db

\* The store holds a task of the account with a string without the header
\* and a created task with one item, or a created task with two items.
Stores ==
  {WithCreated(InsertTask(EmptyDb, 1,
                          TaskPayload([id |-> 1], <<"a">>, <<>>, Headerless, TRUE)).db,
               << <<"0">> >>),
   WithCreated(EmptyDb, << <<"0">>, <<>>, <<"e'">> >>)}

InitListing ==
  /\ last = NoCall
  /\ kept = NoCall
  /\ \E store \in Stores, user \in Accounts : Mounted(store, user)

\* useAuth() gives a user (after a sign-in, or another object for the
\* account that is signed in), or the user signs out.
NextListing ==
  \/ ServeExecute
  \/ FetchTasksReturns
  \/ (\E user \in Accounts : UserChanges(user)) /\ Room
  \/ \E succeeds \in BOOLEAN : handleSignOut(succeeds)

SpecListing == InitListing /\ [][NextListing]_vars

(***************************************************************************)
(* The record store under requests of any principal                        *)
(***************************************************************************)
Principals == {1, 2}

RowIds == 1..MaxRows

\* The statements the components send, with any principal and any
\* arguments, and statements that try to hand a row to another owner or
\* parent.
StoreRequests ==
  UNION {
    {Request("selectTasks", by, 0, user_id, "all", <<>>, <<>>) : user_id \in Principals}
    \cup {Request("insertTask", by, 0, 0, "all",
                  <<TaskPayload([id |-> user_id], <<"a">>, <<>>, <<"H">>, TRUE)>>, <<>>) :
            user_id \in Principals}
    \cup {Request("insertItems", by, 0, 0, "all",
                  <<[task_id |-> id, encrypted_data |-> <<"H">>, position |-> 0,
                     completed |-> FALSE]>>, <<>>) :
            id \in RowIds}
    \cup {Request("updateTask", by, id, 0, "all", <<>>, patch) :
            id \in RowIds,
            patch \in {[status |-> "completed", completed_at |-> <<1>>]}
                      \cup {[user_id |-> user_id] : user_id \in Principals}}
    \cup {Request("updateItem", by, id, 0, "all", <<>>, patch) :
            id \in RowIds,
            patch \in {[completed |-> TRUE]} \cup {[task_id |-> task_id] : task_id \in RowIds}}
    \cup {Request(kind, by, id, 0, "all", <<>>, <<>>) :
            kind \in {"deleteTask", "deleteItem"}, id \in RowIds}
    : by \in Principals}

InitStore == last = NoCall /\ kept = NoCall /\ NoApp

\* The most statements of the principals awaited at a time.
MaxStatements == 1

\* A principal sends a statement.
SendsRequest ==
  /\ \E req \in StoreRequests : net' = Append(net, Awaited("request", req, <<>>, {}))
  /\ Len(net') <= MaxStatements
  /\ UNCHANGED <<last, kept, db, auth, view, form, typed>>

\* A principal has its answer.
RequestReturns ==
  \E i \in 1..Len(net) :
    /\ Answered(i)
    /\ net[i].kind = "request"
    /\ net' = Remove(net, i)
    /\ UNCHANGED <<last, kept, db, auth, view, form, typed>>

NextStore ==
  \/ SendsRequest
  \/ ServeExecute
  \/ ServeFail
  \/ RequestReturns

SpecStore == InitStore /\ [][NextStore]_vars

(***************************************************************************)
(* Working with the listed tasks                                           *)
(***************************************************************************)
\* The store holds a task of another user, for today, and a task of the
\* user, not for today, with one checklist item, when TaskList is mounted
\* for the user.
InitTasks ==
  LET user == [id |-> 1, email |-> 1]
      other == InsertTask(EmptyDb, 2,
                          TaskPayload([id |-> 2], <<"a">>, <<>>,
                                      encryptData(<<"0">>, 2, 0).val, TRUE)).db
      own == InsertTask(other, user.id,
                        TaskPayload(user, <<"a">>, <<>>,
                                    encryptData(<<"0">>, user.email, 0).val, FALSE))
      items == InsertItems(own.db, user.id,
                           ChecklistPayload(own.data[1], << <<"0">> >>, user.email,
                                            <<1>>)).db
  IN  last = NoCall /\ kept = NoCall /\ Mounted(items, user)

SelectsFilter == (\E filter \in {"all", "today", "pending"} : SetFilter(filter)) /\ Room

TogglesTask == (\E n \in 1..Len(view.tasks) : ToggleTaskStatus(n)) /\ Room

TogglesItem ==
  /\ \E n \in 1..Len(view.tasks) :
       \E m \in 1..Len(view.tasks[n].checklist) : ToggleChecklistItem(n, m)
  /\ Room

NextTasks ==
  \/ ServeExecute
  \/ ServeFail
  \/ FetchTasksReturns
  \/ ToggleTaskStatusReturns
  \/ ToggleChecklistItemReturns
  \/ SelectsFilter
  \/ TogglesTask
  \/ TogglesItem

SpecTasks == InitTasks /\ [][NextTasks]_vars

(***************************************************************************)
(* Deleting listed tasks                                                   *)
(***************************************************************************)
\* The store holds two tasks of the user, one of them for today, when
\* TaskList is mounted.
InitOverlap ==
  LET user == [id |-> 1, email |-> 1]
      description == encryptData(<<"0">>, user.email, 0).val
      one == InsertTask(EmptyDb, user.id,
                        TaskPayload(user, <<"a">>, <<>>, description, TRUE)).db
      two == InsertTask(one, user.id,
                        TaskPayload(user, <<"a">>, <<>>, description, FALSE)).db
  IN  last = NoCall /\ kept = NoCall /\ Mounted(two, user)

DeletesTask ==
  (\E n \in 1..Len(view.tasks), confirmed \in BOOLEAN : deleteTask(n, confirmed)) /\ Room

NextDeleting ==
  \/ ServeExecute
  \/ ServeFail
  \/ FetchTasksReturns
  \/ ToggleTaskStatusReturns
  \/ DeleteTaskReturns
  \/ SelectsFilter
  \/ TogglesTask
  \/ DeletesTask

SpecDeleting == InitOverlap /\ [][NextDeleting]_vars

(***************************************************************************)
(* Changing and deleting tasks with a store that answers                   *)
(***************************************************************************)
\* TaskList is mounted for the account, which has created a task with one
\* checklist item.
InitAnswered ==
  /\ last = NoCall
  /\ kept = NoCall
  /\ Mounted(WithCreated(EmptyDb, << <<"0">> >>), [id |-> 1, email |-> 1])

NextAnswered ==
  \/ ServeExecute
  \/ FetchTasksReturns
  \/ ToggleTaskStatusReturns
  \/ ToggleChecklistItemReturns
  \/ DeleteTaskReturns
  \/ SelectsFilter
  \/ TogglesTask
  \/ TogglesItem
  \/ DeletesTask

SpecAnswered == InitAnswered /\ [][NextAnswered]_vars

(***************************************************************************)
(* Filling in and submitting the form                                      *)
(***************************************************************************)
\* The users TaskList is mounted for: one without an email, one with one.
Sessions == {[id |-> 1, email |-> 0], [id |-> 1, email |-> 1]}

\* TaskList is mounted for the session, the store holding a task of the
\* account, and the form has been opened while the first fetch is awaited.
InitForm ==
  LET owner == [id |-> 1, email |-> 1]
      one == InsertTask(EmptyDb, owner.id,
                        TaskPayload(owner, <<"a">>, <<>>,
                                    encryptData(<<"0">>, owner.email, 0).val, TRUE)).db
      opened(user) == fetchTasks([TaskListState EXCEPT !.showForm = TRUE], <<>>, user,
                                 TaskListState.filter, TRUE)
  IN  /\ last = NoCall
      /\ kept = NoCall
      /\ db = one
      /\ form = TaskFormState
      /\ typed = {}
      /\ \E user \in Sessions :
           auth = user /\ view = opened(user).view /\ net = opened(user).net

\* The form's onSubmit.
SubmitsForm == HandleSubmit(<<0, 1, 0>>) /\ Room

\* The user types into the title (empty, blank or proper), the link, the
\* description and the checklist items, ticks the checkbox, adds and removes
\* items, and submits.
NextForm ==
  \/ ServeExecute
  \/ ServeFail
  \/ FetchTasksReturns
  \/ InsertTaskReturns
  \/ InsertItemsReturns
  \/ \E value \in {<<>>, <<" ">>, <<"a">>, <<" ", "a">>} : setTitle(value)
  \/ \E value \in {<<>>, <<"a">>} : setJiraLink(value)
  \/ \E value \in {<<>>, <<"0">>} : setDescription(value)
  \/ setIsToday(~form.isToday)
  \/ handleAddChecklistItem /\ Len(form'.checklistItems) < MaxItems
  \/ \E index \in 1..MaxItems : handleRemoveChecklistItem(index)
  \/ \E index \in 1..MaxItems, value \in {<<>>, <<"0">>} : handleItemChange(index, value)
  \/ SubmitsForm

SpecForm == InitForm /\ [][NextForm]_vars

(***************************************************************************)
(* Requests that overlap                                                   *)
(***************************************************************************)
\* The most requests awaited at a time when only one kind of request is
\* sent.
MaxOverlap == 3

\* The user toggles a task while earlier requests are awaited.
TogglesTaskAgain ==
  (\E n \in 1..Len(view.tasks) : ToggleTaskStatus(n)) /\ Len(net') <= MaxOverlap

NextToggling ==
  \/ ServeExecute
  \/ ServeFail
  \/ FetchTasksReturns
  \/ ToggleTaskStatusReturns
  \/ TogglesTaskAgain

SpecToggling == InitOverlap /\ [][NextToggling]_vars

\* The user selects a filter while earlier fetches are awaited; the store
\* answers every request, in any order.
SelectsFilterAgain ==
  (\E filter \in {"all", "today", "pending"} : SetFilter(filter))
    /\ Len(net') <= MaxOverlap

NextFetching == ServeExecute \/ FetchTasksReturns \/ SelectsFilterAgain

SpecFetching == InitOverlap /\ [][NextFetching]_vars

(***************************************************************************)
(* Properties                                                              *)
(***************************************************************************)
\* The last call decrypted, as a string, the whole ciphertext that the most
\* recent encryptData call returned.
DecryptsKeptText ==
  /\ last.op = "decryptData"
  /\ kept.op = "encryptData"
  /\ kept.out.kind = "return"
  /\ last.cipher = kept.out.val

\* The last call decrypted, as an object, the whole ciphertext that the most
\* recent encryptObject call returned.
DecryptsKeptObject ==
  /\ last.op = "decryptObject"
  /\ kept.op = "encryptObject"
  /\ kept.out.kind = "return"
  /\ last.cipher = kept.out.val

\* What the cipher primitive and the UTF-8 decoding give on the arguments of
\* the last (decrypting) call.
LastDecoded == Utf8Stringify(AESDecrypt(last.cipher, last.pass, last.salt))

\* C1: round-trip law: for every text s, the empty one included, and every
\* passphrase p, decryptData(encryptData(s, p), p) returns s.
C1_RoundTrip ==
  (DecryptsKeptText /\ last.pass = kept.pass)
    => (last.out.kind = "return" /\ last.out.val = kept.text)

\* C2: for every non-empty text s and every passphrase p,
\* decryptData(encryptData(s, p), p) returns exactly s and does not throw.
C2_RoundTripNonEmpty ==
  (DecryptsKeptText /\ last.pass = kept.pass /\ kept.text # <<>>)
    => (last.out.kind = "return" /\ last.out.val = kept.text)

\* A multi-byte text has been encrypted and decrypted with the same passphrase.
C2_Witness ==
  /\ DecryptsKeptText
  /\ last.pass = kept.pass
  /\ kept.text = <<"e'">>
  /\ last.out.val = <<"e'">>

\* C3: decryptData never returns the empty string: when the primitive
\* succeeds and the decoded text is empty, it throws the decryption failure.
C3_NeverReturnsEmpty ==
  last.op = "decryptData" =>
    /\ last.out.kind = "return" => last.out.val # <<>>
    /\ (~LastDecoded.threw /\ LastDecoded.val = <<>>)
         => (last.out.kind = "throw" /\ last.out.err = DecryptError)

\* The ciphertext of the empty text was decrypted with the right passphrase:
\* the primitive succeeded, the decoded text is empty.
C3_Witness ==
  /\ DecryptsKeptText
  /\ last.pass = kept.pass
  /\ kept.text = <<>>
  /\ ~LastDecoded.threw
  /\ LastDecoded.val = <<>>
  /\ last.out.kind = "throw"

\* C4: key sensitivity: for passphrases p1 # p2,
\* decryptData(encryptData(s, p1), p2) never returns s.
C4_KeySensitivity ==
  (DecryptsKeptText /\ last.pass # kept.pass)
    => ~(last.out.kind = "return" /\ last.out.val = kept.text)

\* C5: two consecutive encryptData calls with the same text and the same
\* passphrase (the salts drawn being different) return two different
\* ciphertexts, and both ciphertexts decrypt to the text under the passphrase.
C5_TwoCalls ==
  [][(/\ last.op = "encryptData"
      /\ last.out.kind = "return"
      /\ last'.op = "encryptData"
      /\ last'.text = last.text
      /\ last'.pass = last.pass
      /\ last'.salt # last.salt)
     => (/\ last'.out.kind = "return"
         /\ last'.out.val # last.out.val
         /\ decryptData(last.out.val, last.pass, 0) = Return(last.text, 1)
         /\ decryptData(last'.out.val, last.pass, 0) = Return(last.text, 1))]_vars

\* The strings encryptData can return: header, salt and a positive whole
\* number of blocks, in Base64 characters only.
WellFormedCipher(str) ==
  /\ \A i \in 1..Len(str) : \E b \in 1..8 : Base64Map[b] = str[i]
  /\ HasSalt(str)
  /\ Len(str) >= 4
  /\ Len(str) % 2 = 0

\* C6: malformed input: for a string that encryptData cannot have produced,
\* decryptData throws the decryption failure and returns no value.
C6_MalformedFails ==
  (last.op = "decryptData" /\ ~WellFormedCipher(last.cipher))
    => (last.out.kind = "throw" /\ last.out.err = DecryptError)

\* C7: object round trip: for every JSON value obj and passphrase p,
\* decryptObject(encryptObject(obj, p), p) equals obj.
C7_ObjectRoundTrip ==
  (DecryptsKeptObject /\ kept.obj \in JsonValues /\ last.pass = kept.pass)
    => (last.out.kind = "return" /\ last.out.obj = kept.obj)

\* A nested array went through encryptObject and decryptObject.
C7_Witness ==
  /\ DecryptsKeptObject
  /\ last.pass = kept.pass
  /\ kept.obj = Arr(<<Arr(<<Num0>>), Num0>>)
  /\ last.out.obj = kept.obj

\* C8: encryptObject fails with a serialization error, distinct from the
\* encryption and decryption failures, whenever the value cannot be
\* serialized to JSON, and then produces no ciphertext.
C8_SerializationError ==
  (last.op = "encryptObject" /\ last.obj \notin JsonValues)
    => /\ last.out.kind = "throw"
       /\ last.out.err \notin {EncryptError, DecryptError}
       /\ last.out.val = <<>>

\* C9: decryptObject throws the decryption failure, without parsing, when
\* decryptData fails on the same arguments; throws a distinct parse error
\* when the decrypted text is not JSON; returns only when both succeed.
C9_DecryptObjectFailures ==
  last.op = "decryptObject" =>
    LET d == decryptData(last.cipher, last.pass, last.salt)
        parsed == JSONParse(d.val)
    IN  /\ d.kind = "throw"
             => (last.out.kind = "throw" /\ last.out.err = DecryptError
                 /\ last.out.parses = 0)
        /\ (d.kind = "return" /\ parsed.threw)
             => (last.out.kind = "throw" /\ last.out.err = SyntaxError
                 /\ last.out.err # DecryptError)
        /\ last.out.kind = "return"
             => (d.kind = "return" /\ ~parsed.threw /\ last.out.obj = parsed.val)

\* decryptObject decrypted a text that is not JSON.
C9_Witness ==
  /\ last.op = "decryptObject"
  /\ decryptData(last.cipher, last.pass, last.salt).kind = "return"
  /\ last.out.kind = "throw"
  /\ last.out.err = SyntaxError

\* The string the last (encrypting) call hands to the cipher primitive.
LastMessage ==
  IF last.op = "encryptData" THEN last.text ELSE JSONStringify(last.obj).val

\* C10: no retry, no swallowed error: a call invokes the primitive at most
\* once, a failure of the primitive reaches the caller as the encryption
\* failure (encrypting calls) or the decryption failure (decrypting calls),
\* and no call returns a value after its primitive failed.
C10_NoRetryNoSwallow ==
  /\ last.out.prims <= 1
  /\ last.out.primThrew => last.out.kind = "throw"
  /\ (/\ last.op \in {"encryptData", "encryptObject"}
      /\ ~JSONStringify(last.obj).threw
      /\ AESEncryptThrows(LastMessage))
       => (last.out.kind = "throw" /\ last.out.err = EncryptError)
  /\ (last.op \in {"decryptData", "decryptObject"} /\ LastDecoded.threw)
       => (last.out.kind = "throw" /\ last.out.err = DecryptError)

\* encryptData was called with a text on which the primitive throws.
C10_Witness ==
  /\ last.op = "encryptData"
  /\ AESEncryptThrows(last.text)
  /\ last.out.kind = "throw"
  /\ last.out.prims = 1

\* C11: the outcome of a decryptData or decryptObject call depends only on
\* its own arguments: a call that follows one of the same operation on the
\* same string under the same passphrase has the same outcome.
C11_OwnArgumentsOnly ==
  [][(/\ last.op \in {"decryptData", "decryptObject"}
      /\ last'.op = last.op
      /\ last'.cipher = last.cipher
      /\ last'.pass = last.pass)
     => (/\ last'.out.kind = last.out.kind
         /\ last'.out.val = last.out.val
         /\ last'.out.obj = last.out.obj)]_vars

\* A handler sends, in this step, a request awaited by the continuation.
Sends(kind) ==
  /\ Len(net') = Len(net) + 1
  /\ net'[Len(net')].kind = kind
  /\ SubSeq(net', 1, Len(net)) = net

\* The continuation resumes in this step with the answer to request i.
Resumes(i, kind) ==
  /\ Answered(i)
  /\ net[i].kind = kind
  /\ net' = Remove(net, i)

\* The awaited requests, whichever TaskItems are still mounted.
Forget(awaited) ==
  [i \in 1..Len(awaited) |-> [awaited[i] EXCEPT !.on = @ \ {"TaskItem"}]]

\* fetchTasks of the mounted TaskList resumes in this step with the rows
\* request i fetched.
FetchReturnsRows(i) ==
  /\ Answered(i)
  /\ net[i].kind = "fetchTasks"
  /\ ~Response(i).error
  /\ "TaskList" \in net[i].on
  /\ Forget(net') = Forget(Remove(net, i))

\* A record is shown with the description and the item texts that its
\* strings decrypt to under the email with the draws rnds.
ShownDecrypted(shown, entry, email, rnds) ==
  LET sorted == OrderBy(entry.checklist_items, "position", TRUE)
  IN  /\ AllDecrypt(entry, email, rnds)
      /\ shown.description = decryptData(entry.task.encrypted_data, email, rnds[1]).val
      /\ Len(shown.checklist) = Cardinality(entry.checklist_items)
      /\ \A j \in 1..Len(sorted) :
           /\ shown.checklist[j].id = sorted[j].id
           /\ shown.checklist[j].text
                = decryptData(sorted[j].encrypted_data, email, rnds[j + 1]).val

\* C12: when fetchTasks resumes with n fetched rows, the list it sets has
\* exactly n entries, in the fetched order, whichever of them fail to
\* decrypt; and every record whose description and checklist items all
\* decrypt is shown with the decrypted description and item texts (a record
\* is shown with the placeholder only if, with salts its decryptData calls
\* can draw, not all of its strings decrypt).
C12_FailureIsolation ==
  [][\A i \in 1..Len(net) :
       FetchReturnsRows(i) =>
         LET data == Response(i).data
             email == net[i].k.user.email
         IN  /\ Len(view'.tasks) = Len(data)
             /\ \A n \in 1..Len(data) :
                  /\ view'.tasks[n].id = data[n].task.id
                  /\ \/ \E rnds \in DrawsOf(data[n]) :
                          ShownDecrypted(view'.tasks[n], data[n], email, rnds)
                     \/ /\ view'.tasks[n].description = DecryptionFailed
                        /\ \E rnds \in DrawsOf(data[n]) :
                             ~AllDecrypt(data[n], email, rnds)]_vars

\* A list was set in which a record that failed to decrypt stands beside
\* one that decrypted, checklist included.
C12_Witness ==
  /\ ~view.loading
  /\ \E m, n \in 1..Len(view.tasks) :
       /\ view.tasks[m].description = DecryptionFailed
       /\ view.tasks[n].description # DecryptionFailed
       /\ view.tasks[n].checklist # <<>>

\* C13: a task created through the form is displayed, when fetched under
\* the email it was created with, with the description and the checklist
\* texts that were entered.
C13_CreatedTasksDisplayed ==
  [][\A i \in 1..Len(net) :
       FetchReturnsRows(i) =>
         \A n \in 1..Len(view'.tasks) :
           \A entered \in typed :
             (entered.id = view'.tasks[n].id /\ entered.email = net[i].k.user.email)
               => /\ view'.tasks[n].description = entered.description
                  /\ [j \in 1..Len(view'.tasks[n].checklist) |->
                        view'.tasks[n].checklist[j].text] = entered.checklist]_vars

\* The string is what encryptData returns for the text under the email,
\* for some salt, and is not the text.
EncryptedAs(str, text, email) ==
  /\ str # text
  /\ \E salt \in Salts : encryptData(text, email, salt) = Return(str, 1)

\* C14: a submit that sends the insert of the task runs over the user
\* useAuth() gives and the fields of the form; and in every insert awaited
\* after a step, the encrypted_data of the task row is
\* encryptData(description, user.email) and the encrypted_data of the
\* checklist rows are encryptData(item, user.email) for the items of the
\* submit that are not blank, in their order; the texts themselves are not
\* sent.
C14_EncryptBeforeStore ==
  [][/\ Sends("insertTask") =>
          LET sent == net'[Len(net')]
          IN  /\ sent.k.user = auth
              /\ sent.k.description = form'.description
              /\ sent.k.checklistItems = form'.checklistItems
              /\ sent.req.by = auth.id
     /\ \A i \in 1..Len(net') :
          LET k == net'[i].k
              rows == net'[i].req.rows
          IN  /\ net'[i].kind = "insertTask" =>
                   /\ Len(rows) = 1
                   /\ EncryptedAs(rows[1].encrypted_data, k.description, k.user.email)
              /\ net'[i].kind = "insertItems" =>
                   LET validItems == ValidItems(k.checklistItems)
                   IN  /\ Len(rows) = Len(validItems)
                       /\ \A j \in 1..Len(validItems) :
                            EncryptedAs(rows[j].encrypted_data, validItems[j],
                                        k.user.email)]_vars

\* The form has sent the insert of two checklist items, after the insert of
\* their task.
C14_Witness ==
  \E i \in 1..Len(net) :
    /\ net[i].kind = "insertItems"
    /\ Len(net[i].req.rows) = 2
    /\ \E t \in db.tasks : t.id = net[i].req.rows[1].task_id

\* The store answers request i in this step; the other requests stay as
\* they are.
Serves(i) ==
  /\ Len(net') = Len(net)
  /\ net[i].resp = <<>>
  /\ net'[i].resp # <<>>
  /\ net' = [net EXCEPT ![i].resp = net'[i].resp]

\* C15: a statement of principal u changes, creates or deletes no tasks row
\* of another user and no checklist_items row whose task is another user's,
\* and returns no such row.
C15_OwnershipIsolation ==
  [][\A i \in 1..Len(net) :
       Serves(i) =>
         LET u == net[i].req.by
             data == net'[i].resp[1].data
         IN  /\ \A t \in db.tasks \ db'.tasks : t.user_id = u
             /\ \A t \in db'.tasks \ db.tasks : t.user_id = u
             /\ \A ci \in db.checklist_items \ db'.checklist_items : OwnItem(db, u, ci)
             /\ \A ci \in db'.checklist_items \ db.checklist_items : OwnItem(db', u, ci)
             /\ net[i].req.kind = "selectTasks" =>
                  \A n \in 1..Len(data) :
                    /\ data[n].task.user_id = u
                    /\ \A ci \in data[n].checklist_items : OwnItem(db, u, ci)
             /\ net[i].req.kind = "insertTask" =>
                  \A n \in 1..Len(data) : data[n].user_id = u]_vars

\* A principal's update that names, by id only, a task of another user was
\* answered without an error and the task is as it was.
C15_Witness ==
  /\ Answered(1)
  /\ net[1].req.kind = "updateTask"
  /\ ~Response(1).error
  /\ \E t \in db.tasks :
       /\ t.id = net[1].req.id
       /\ t.user_id # net[1].req.by
       /\ t.status = "pending"
       /\ \E ci \in db.checklist_items : ci.task_id = t.id

\* C16: after every step each checklist_items row references a tasks row
\* that exists; a step that deletes tasks rows deletes only the rows the
\* delete names, with exactly the checklist items whose task_id is theirs.
C16_CascadeDelete ==
  [][/\ \A ci \in db'.checklist_items : \E t \in db'.tasks : t.id = ci.task_id
     /\ \A i \in 1..Len(net) :
          (Serves(i) /\ net[i].req.kind = "deleteTask") =>
            LET gone == db.tasks \ db'.tasks
            IN  /\ db'.tasks \subseteq db.tasks
                /\ \A t \in gone : t.id = net[i].req.id
                /\ db'.checklist_items =
                     {ci \in db.checklist_items : \A t \in gone : ci.task_id # t.id}]_vars

\* The owner's delete of the first task was answered without an error:
\* that task is gone, no checklist item is left, and the task of another
\* user remains.
C16_Witness ==
  /\ Answered(1)
  /\ net[1].req.kind = "deleteTask"
  /\ net[1].req.id = 1
  /\ ~Response(1).error
  /\ db.clock > MaxRows
  /\ db.checklist_items = {}
  /\ \E t \in db.tasks : db.tasks = {t} /\ t.user_id # net[1].req.by

\* C17: when fetchTasks resumes, a fetched record of which the description
\* or any checklist item fails to decrypt is set with the placeholder as its
\* description and an empty checklist, and with the id, title, status,
\* is_today, completed_at and link of the fetched row (a record is set
\* otherwise only if, with salts its decryptData calls can draw, all of its
\* strings decrypt).
C17_PlaceholderAllOrNothing ==
  [][\A i \in 1..Len(net) :
       FetchReturnsRows(i) =>
         \A n \in 1..Len(Response(i).data) :
           LET entry == Response(i).data[n]
               email == net[i].k.user.email
               shown == view'.tasks[n]
           IN  \/ /\ \E rnds \in DrawsOf(entry) : ~AllDecrypt(entry, email, rnds)
                  /\ shown.description = DecryptionFailed
                  /\ shown.checklist = <<>>
                  /\ \A column \in {"id", "title", "status", "is_today", "completed_at",
                                    "jira_ticket_link"} :
                       shown[column] = entry.task[column]
               \/ /\ \E rnds \in DrawsOf(entry) : AllDecrypt(entry, email, rnds)
                  /\ shown.description # DecryptionFailed
                  /\ Len(shown.checklist) = Cardinality(entry.checklist_items)]_vars

\* A task is displayed with the placeholder and no checklist although its
\* description decrypts under the email of the user: one of its two
\* checklist items does not, the other does.
C17_Witness ==
  /\ net = <<>>
  /\ ~view.loading
  /\ \E n \in 1..Len(view.tasks) :
       /\ view.tasks[n].description = DecryptionFailed
       /\ view.tasks[n].checklist = <<>>
       /\ decryptData(view.tasks[n].encrypted_data, auth.email, 0).kind = "return"
       /\ \E ci, cj \in db.checklist_items :
            /\ ci.task_id = view.tasks[n].id
            /\ cj.task_id = view.tasks[n].id
            /\ decryptData(ci.encrypted_data, auth.email, 0).kind = "return"
            /\ decryptData(cj.encrypted_data, auth.email, 0).kind = "throw"

\* The displayed tasks with the id.
Shown(state, id) == {state.tasks[n] : n \in {m \in 1..Len(state.tasks) : state.tasks[m].id = id}}

\* C18: toggleTaskStatus sets the displayed task to the opposite status,
\* with completed_at the present time when completing and null when
\* reopening, and sends the update of these two columns, which the store
\* has not executed yet; when the update has failed, the displayed status
\* and completed_at are set to what they were before the toggle, and when
\* it has succeeded the displayed tasks stay as they are.
C18_OptimisticStatusToggle ==
  [][/\ Sends("toggleTaskStatus") =>
          LET sent == net'[Len(net')]
          IN  /\ sent.resp = <<>>
              /\ db' = db
              /\ sent.k.task \in Shown(view, sent.req.id)
              /\ \A shown \in Shown(view', sent.req.id) :
                   /\ shown.status # sent.k.task.status
                   /\ shown.status \in {"pending", "completed"}
                   /\ shown.completed_at
                        = IF shown.status = "completed" THEN Now ELSE <<>>
                   /\ sent.req.patch = [status |-> shown.status,
                                        completed_at |-> shown.completed_at]
              /\ Shown(view', sent.req.id) # {}
     /\ \A i \in 1..Len(net) :
          Resumes(i, "toggleTaskStatus") =>
            IF Response(i).error
            THEN \A shown \in Shown(view', net[i].req.id) :
                   /\ shown.status = net[i].k.task.status
                   /\ shown.completed_at = net[i].k.task.completed_at
            ELSE view' = view]_vars

\* The update of a toggle that reopened a completed task has failed; the
\* task is still displayed as pending.
C18_Witness ==
  \E i \in 1..Len(net) :
    /\ Answered(i)
    /\ net[i].kind = "toggleTaskStatus"
    /\ Response(i).error
    /\ net[i].k.task.status = "completed"
    /\ net[i].k.task.completed_at # <<>>
    /\ \E shown \in Shown(view, net[i].req.id) :
         shown.status = "pending" /\ shown.completed_at = <<>>

\* The displayed checklist items with the id, in the displayed tasks.
ShownItems(state, id) ==
  UNION {{task.checklist[m] : m \in {j \in 1..Len(task.checklist) : task.checklist[j].id = id}} :
           task \in {state.tasks[n] : n \in 1..Len(state.tasks)}}

\* C19: toggleChecklistItem flips the displayed completed flag of the item
\* and sends the update of the flag, which the store has not executed yet;
\* an update that fails leaves the store as it was; when the update has
\* failed the displayed flag is set to what it was before the toggle, a
\* displayed item staying displayed; when it has succeeded the displayed
\* tasks stay as they are.
C19_OptimisticItemToggle ==
  [][/\ Sends("toggleChecklistItem") =>
          LET sent == net'[Len(net')]
          IN  /\ sent.resp = <<>>
              /\ db' = db
              /\ \E before \in ShownItems(view, sent.req.id) :
                   before.completed = sent.k.currentCompleted
              /\ ShownItems(view', sent.req.id) # {}
              /\ \A shown \in ShownItems(view', sent.req.id) :
                   /\ shown.completed = ~sent.k.currentCompleted
                   /\ sent.req.patch = [completed |-> shown.completed]
     /\ \A i \in 1..Len(net) :
          (Serves(i) /\ net[i].kind = "toggleChecklistItem" /\ net'[i].resp[1].error)
            => db' = db
     /\ \A i \in 1..Len(net) :
          Resumes(i, "toggleChecklistItem") =>
            IF Response(i).error
            THEN /\ ShownItems(view, net[i].req.id) # {}
                      => ShownItems(view', net[i].req.id) # {}
                 /\ \A shown \in ShownItems(view', net[i].req.id) :
                      shown.completed = net[i].k.currentCompleted
            ELSE view' = view]_vars

\* The update of a toggle that unchecked a completed item has failed; the
\* item is still displayed as not completed and the store holds it as
\* completed.
C19_Witness ==
  \E i \in 1..Len(net) :
    /\ Answered(i)
    /\ net[i].kind = "toggleChecklistItem"
    /\ Response(i).error
    /\ net[i].k.currentCompleted
    /\ \E shown \in ShownItems(view, net[i].req.id) : ~shown.completed
    /\ \E ci \in db.checklist_items : ci.id = net[i].req.id /\ ci.completed

\* The tasks of the store that belong to the user and satisfy the filter
\* selected in the list.
TasksOfUnder(store, user, filter) ==
  {t \in store.tasks :
     /\ t.user_id = user.id
     /\ filter = "today" => t.is_today = TRUE
     /\ filter = "pending" => t.status = "pending"}

\* C20: the list starts with the filter 'today'; and when fetchTasks resumes
\* with fetched rows, the list it sets holds exactly the tasks of the store
\* that belong to the signed-in user and satisfy the selected filter
\* ('today': is_today; 'pending': status 'pending'; 'all': every one), each
\* once and with the columns the store holds, by created_at descending.
\* Violated when the filter has changed since the fetch was sent: the rows
\* set are those of the filter the fetch was sent with (see C24).
C20_FilterSemantics ==
  /\ view.filter = "today"
  /\ [][\A i \in 1..Len(net) :
          FetchReturnsRows(i) =>
            LET expected == TasksOfUnder(db, auth, view.filter)
                shown == view'.tasks
            IN  /\ Len(shown) = Cardinality(expected)
                /\ \A t \in expected : \E n \in 1..Len(shown) :
                     /\ shown[n].id = t.id
                     /\ shown[n].user_id = t.user_id
                     /\ shown[n].title = t.title
                     /\ shown[n].status = t.status
                     /\ shown[n].is_today = t.is_today
                     /\ shown[n].created_at = t.created_at
                     /\ shown[n].completed_at = t.completed_at
                /\ \A n \in 1..Len(shown) : \A m \in 1..Len(shown) :
                     n < m => shown[n].created_at > shown[m].created_at]_vars

\* A title that is empty or consists of spaces only.
Blank(title) == \A n \in 1..Len(title) : title[n] = " "

\* What a submit that fails validation leaves alone: nothing is sent, the
\* store, the list and its form toggle (onSuccess would hide the form and
\* fetch) stay as they are, loading is false before and after, and the
\* fields keep their contents.
RejectedUntouched ==
  /\ net' = net
  /\ db' = db
  /\ view' = view
  /\ form.loading = FALSE
  /\ form'.loading = FALSE
  /\ form'.title = form.title
  /\ form'.description = form.description
  /\ form'.jiraLink = form.jiraLink
  /\ form'.checklistItems = form.checklistItems
  /\ form'.isToday = form.isToday

\* C21: a submit without a user email sets the error 'User not
\* authenticated'; a submit whose title is empty or only spaces sets the
\* error 'Title is required' (the email is tested first, so this is the
\* case of a user with an email); in both cases no request is sent, loading
\* stays false, the fields keep their contents and the list is not told of
\* a success.
C21_ValidationInOrder ==
  [][SubmitsForm =>
       /\ auth.email = 0 =>
            form'.error = "User not authenticated" /\ RejectedUntouched
       /\ (auth.email # 0 /\ Blank(form.title)) =>
            form'.error = "Title is required" /\ RejectedUntouched]_vars

\* A user with an email has submitted a title of spaces with a description
\* filled in: the error is shown, the fields are as typed, nothing is
\* awaited and the store holds the one task it held before.
C21_Witness ==
  /\ auth.email # 0
  /\ form.error = "Title is required"
  /\ form.title = <<" ">>
  /\ form.description = <<"0">>
  /\ ~form.loading
  /\ view.showForm
  /\ net = <<>>
  /\ db.clock = 2

\* The ids of the displayed tasks.
ShownIds(state) == {state.tasks[n].id : n \in 1..Len(state.tasks)}

\* deleteTask resumes in this step with the answer to request i: the
\* request is no longer awaited and at most one other is.
DeleteResumes(i) ==
  /\ Answered(i)
  /\ net[i].kind = "deleteTask"
  /\ \/ net' = Remove(net, i)
     \/ /\ Len(net') = Len(net)
        /\ SubSeq(net', 1, Len(net) - 1)
             \in {Remove(net, i), Unmount(Remove(net, i), {"TaskItem"})}

\* Every TaskItem whose loading flag is set has its delete awaited.
LoadingOnlyWhileDeleting(state, awaited) ==
  \A id \in state.deleting :
    \E i \in 1..Len(awaited) :
      /\ awaited[i].kind = "deleteTask"
      /\ awaited[i].req.id = id
      /\ "TaskItem" \in awaited[i].on

\* C22: a task leaves the displayed list only in a step in which a fetch
\* returns rows and the store, after a successful delete, no longer holds
\* the task; a declined confirmation changes nothing and sends nothing;
\* sending the delete leaves the list and the store as they are; a delete
\* that failed starts no fetch and leaves the list as it is; a delete that
\* succeeded has removed the task from the store and starts exactly one
\* fetch, for the user and the filter of the list the button was clicked
\* in; once that fetch is answered and nothing is awaited, the list shows no
\* task that the store no longer holds; and the loading flag of a TaskItem
\* is set only while its delete is awaited and is cleared when its
\* deleteTask resumes.
\* Violated when the fetch that follows a successful delete fails: the list
\* is left as it is and the deleted task stays displayed. Violated also
\* when another filter is selected: its fetch takes tasks from the list
\* that nobody deleted.
C22_DeleteThroughRefetch ==
  /\ [][/\ \A n \in 1..Len(view.tasks) : deleteTask(n, FALSE) => UNCHANGED vars
        /\ Sends("deleteTask") =>
             /\ view'.tasks = view.tasks
             /\ view'.loading = view.loading
             /\ db' = db
             /\ net'[Len(net')].k.user = auth
             /\ net'[Len(net')].k.filter = view.filter
        /\ \A i \in 1..Len(net) :
             DeleteResumes(i) =>
               /\ view'.tasks = view.tasks
               /\ "TaskItem" \in net[i].on => net[i].req.id \notin view'.deleting
               /\ IF Response(i).error
                  THEN Len(net') = Len(net) - 1 /\ view'.loading = view.loading
                  ELSE /\ \A t \in db.tasks : t.id # net[i].req.id
                       /\ Len(net') = Len(net)
                       /\ net'[Len(net')].kind = "fetchTasks"
                       /\ net'[Len(net')].resp = <<>>
                       /\ net'[Len(net')].req.user_id = net[i].k.user.id
                       /\ net'[Len(net')].req.filter = net[i].k.filter
                       /\ "TaskList" \in net[i].on => view'.loading
        /\ \A id \in ShownIds(view) \ ShownIds(view') :
             /\ \E i \in 1..Len(net) : FetchReturnsRows(i)
             /\ \A t \in db.tasks : t.id # id
        /\ LoadingOnlyWhileDeleting(view, net)
        /\ LoadingOnlyWhileDeleting(view', net')]_vars
  /\ [](net = <<>> => ShownIds(view) \subseteq {t.id : t \in db.tasks})

\* C23: once no request is awaited, however many toggles of a task
\* overlapped and however their updates were answered, every displayed task
\* shows the status and completed_at the store holds for it.
C23_TogglesConverge ==
  net = <<>> =>
    \A n \in 1..Len(view.tasks) : \A t \in db.tasks :
      t.id = view.tasks[n].id =>
        /\ view.tasks[n].status = t.status
        /\ view.tasks[n].completed_at = t.completed_at

\* C24: once no fetch is awaited, whatever the order in which overlapping
\* fetches were answered, the displayed list holds the user's tasks under
\* the selected filter and no others.
C24_LatestFilterShown ==
  net = <<>> =>
    ShownIds(view) = {t.id : t \in TasksOfUnder(db, auth, view.filter)}

\* C25: whenever no request is awaited, under the filter 'pending' every
\* displayed task has status 'pending', and under the filter 'today' every
\* displayed task has is_today set.
C25_FilterInvariant ==
  net = <<>> =>
    \A n \in 1..Len(view.tasks) :
      /\ view.filter = "pending" => view.tasks[n].status = "pending"
      /\ view.filter = "today" => view.tasks[n].is_today = TRUE

====
